---- MODULE Spec2Model ----
(***************************************************************************)
(* State-machine model of contracts/InfrastructureAnalysisFHE.sol.         *)
(*                                                                         *)
(* Every public function of the contract is one action.  The outcome of a  *)
(* call (success or the revert reason) is a function of the storage and    *)
(* the arguments, given by the ...Outcome operators; a call that reverts   *)
(* leaves storage and event log as they were.  The FHE library             *)
(* (requestDecryption, checkSignatures, asEuint32, toBytes32) is outside   *)
(* the repository and is modelled at its call interface: requestDecryption *)
(* hands out an identifier and records the dispatched request,             *)
(* checkSignatures either passes or reverts.                               *)
(***************************************************************************)
EXTENDS Integers, Sequences, FiniteSets, TLC

\* ------------------------------------------------------------------ bounds
\* Caps on the number of submissions, of AnalysisRecords and of oracle
\* requests; identifiers up to the cap are tried as arguments, so unknown
\* identifiers occur whenever a counter is below its cap.
MaxNetworks == 1
MaxAnalyses == 2
MaxRequests == 3

NetKeys == 0..MaxNetworks
AnKeys == 0..MaxAnalyses
ReqIds == 0..MaxRequests

\* ------------------------------------------------------------- revert kinds
Ok == "ok"
NotFound == "NotFound"
UnknownRequest == "Invalid request"
AlreadyRevealed == "Already decrypted"
ProofVerificationFailed == "InvalidKMSSignatures"
DecodeFailed == "abi.decode"
Overflow == "Panic(0x11)"

\* ------------------------------------------------------------------- inputs
\* Ciphertext handles and sector of a submission (handle 0 is the
\* uninitialised euint32).
Submissions ==
    { [dep |-> 11, cap |-> 12, crit |-> 13, sector |-> 1] }

\* Callback payloads, as sequences of 32-byte ABI words.  The second triple
\* overflows uint32 in dependencies * criticality, the last is too short.
AnalysisCleartexts == { <<10, 2, 6>>, <<65536, 1, 65536>>, <<10, 2>> }
RevealCleartexts == { <<30, 500>>, <<60, 2000>>, <<30>> }

\* Values of block.timestamp.  The contract only stores and emits it, so one
\* value stands for all.
Timestamps == { 1700000000 }

VARIABLES
    networkCount,        \* uint256 public networkCount
    analysisCount,       \* uint256 public analysisCount
    encryptedNetworks,   \* mapping(uint256 => EncryptedNetworkData)
    encryptedAnalyses,   \* mapping(uint256 => EncryptedAnalysis)
    decryptedResults,    \* mapping(uint256 => DecryptedResult)
    requestToNetworkId,  \* mapping(uint256 => uint256), 0 = no entry
    analysisRequestToId, \* mapping(uint256 => uint256), 0 = no entry
    oracleRequests,      \* requests dispatched by FHE.requestDecryption
    events,              \* the contract's event log
    fulfilled            \* history: <<callback, requestId>> that completed

vars == << networkCount, analysisCount, encryptedNetworks, encryptedAnalyses,
           decryptedResults, requestToNetworkId, analysisRequestToId,
           oracleRequests, events, fulfilled >>

\* ----------------------------------------------------------- default values
NoNetwork ==
    [networkId |-> 0, encryptedDependencyMatrix |-> 0, encryptedCapacity |-> 0,
     encryptedCriticality |-> 0, sector |-> 0, timestamp |-> 0]

NoAnalysis ==
    [analysisId |-> 0, encryptedRiskScore |-> 0, encryptedVulnerability |-> 0,
     networkId |-> 0, analyzedAt |-> 0]

NoResult == [riskScore |-> 0, vulnerability |-> 0, isRevealed |-> FALSE]

\* ------------------------------------------------------------ FHE interface
\* FHE.asEuint32: a fresh handle for the trivial encryption of v, distinct
\* from the uninitialised handle 0 and from the submitted handles.
AsEuint32_Truncates(v) == 1000000 + (v % 256)

AsEuint32(v) == 1000000 + v

\* FHE.toBytes32: unwraps the handle.
ToBytes32(h) == h

\* The identifier FHE.requestDecryption hands out next.
counterRequest == Len(oracleRequests)

\* ---------------------------------------------------------- Risk Calculator
Denominator(capacity) == IF capacity > 0 THEN capacity ELSE 1

\* floor((2^32 - 1) / b) for b >= 2, computed within 31-bit integers from
\* 2^32 - 1 = 2 * (2^31 - 1) + 1.  Every uint32 that occurs in the model is
\* below 2^31.
Uint32MaxDiv(b) ==
    2 * (2147483647 \div b) + (2 * (2147483647 % b) + 1) \div b

\* Checked uint32 multiplication (Solidity 0.8): TRUE when a * b > 2^32 - 1.
MulOverflows_Unchecked(a, b) == FALSE

MulOverflows(a, b) == b > 1 /\ a > Uint32MaxDiv(b)

calculateRiskScore_RoundsUp(dependencies, capacity, criticality) ==
    ((dependencies * criticality) + Denominator(capacity) - 1)
        \div Denominator(capacity)

calculateRiskScore(dependencies, capacity, criticality) ==
    (dependencies * criticality) \div Denominator(capacity)

calculateVulnerability(dependencies, capacity) ==
    (dependencies * 100) \div Denominator(capacity)

\* ----------------------------------------------------------------- decoding
\* abi.decode(cleartexts, (uint32, ..., uint32)) with n components reverts
\* when the payload is shorter than n words; extra words are ignored.
Decodes(cleartexts, n) == Len(cleartexts) >= n

\* --------------------------------------------------------------------- Init
Init ==
    /\ networkCount = 0
    /\ analysisCount = 0
    /\ encryptedNetworks = [k \in NetKeys |-> NoNetwork]
    /\ encryptedAnalyses = [k \in AnKeys |-> NoAnalysis]
    /\ decryptedResults = [k \in AnKeys |-> NoResult]
    /\ requestToNetworkId = [r \in ReqIds |-> 0]
    /\ analysisRequestToId = [r \in ReqIds |-> 0]
    /\ oracleRequests = << >>
    /\ events = << >>
    /\ fulfilled = {}

\* A reverted transaction: every write of the call is rolled back.
Reverted_KeepsEvent ==
    /\ events' = Append(events, << "Reverted" >>)
    /\ UNCHANGED << networkCount, analysisCount, encryptedNetworks,
                    encryptedAnalyses, decryptedResults, requestToNetworkId,
                    analysisRequestToId, oracleRequests, fulfilled >>

Reverted_ClearsTrackers ==
    /\ requestToNetworkId' = [r \in ReqIds |-> 0]
    /\ analysisRequestToId' = [r \in ReqIds |-> 0]
    /\ UNCHANGED << networkCount, analysisCount, encryptedNetworks,
                    encryptedAnalyses, decryptedResults, oracleRequests,
                    events, fulfilled >>

Reverted == UNCHANGED vars

\* ----------------------------------------------------------------- outcomes
\* The checks of each function in the order the code makes them: Ok, or the
\* reason of the first revert.
submitEncryptedNetworkDataOutcome(sub) == Ok

requestRiskAnalysisOutcome(networkId) == Ok

performAnalysisOutcome_AnyTracker(requestId, cleartexts, proofOk) ==
    IF requestToNetworkId[requestId] = 0
          /\ analysisRequestToId[requestId] = 0 THEN UnknownRequest
    ELSE IF ~proofOk THEN ProofVerificationFailed
    ELSE IF ~Decodes(cleartexts, 3) THEN DecodeFailed
    ELSE IF MulOverflows(cleartexts[1], cleartexts[3])
            \/ MulOverflows(cleartexts[1], 100) THEN Overflow
    ELSE Ok

performAnalysisOutcome(requestId, cleartexts, proofOk) ==
    IF requestToNetworkId[requestId] = 0 THEN UnknownRequest
    ELSE IF ~proofOk THEN ProofVerificationFailed
    ELSE IF ~Decodes(cleartexts, 3) THEN DecodeFailed
    ELSE IF MulOverflows(cleartexts[1], cleartexts[3])
            \/ MulOverflows(cleartexts[1], 100) THEN Overflow
    ELSE Ok

\* requestResultDecryption without its require(!isRevealed).
requestResultDecryptionOutcome_NoGuard(analysisId) == Ok

requestResultDecryptionOutcome(analysisId) ==
    IF decryptedResults[analysisId].isRevealed THEN AlreadyRevealed ELSE Ok

decryptAnalysisOutcome_LatestOnly(requestId, cleartexts, proofOk) ==
    IF requestId # counterRequest - 1 THEN UnknownRequest
    ELSE
         IF analysisRequestToId[requestId] = 0 THEN UnknownRequest
         ELSE IF decryptedResults[analysisRequestToId[requestId]].isRevealed
             THEN AlreadyRevealed
         ELSE IF ~proofOk THEN ProofVerificationFailed
         ELSE IF ~Decodes(cleartexts, 2) THEN DecodeFailed
         ELSE Ok

decryptAnalysisOutcome(requestId, cleartexts, proofOk) ==
    IF analysisRequestToId[requestId] = 0 THEN UnknownRequest
    ELSE IF decryptedResults[analysisRequestToId[requestId]].isRevealed
        THEN AlreadyRevealed
    ELSE IF ~proofOk THEN ProofVerificationFailed
    ELSE IF ~Decodes(cleartexts, 2) THEN DecodeFailed
    ELSE Ok

\* ------------------------------------------------------------------ actions
\* analysisCount += 1; newAnalysisId = analysisCount.
NextAnalysisId_NoIncrement == analysisCount

NextAnalysisId == analysisCount + 1

submitEncryptedNetworkData_SwapHandles(sub, timestamp) ==
    /\ networkCount < MaxNetworks
    /\ LET newNetworkId == networkCount + 1 IN
       /\ networkCount' = newNetworkId
       /\ encryptedNetworks' =
            [encryptedNetworks EXCEPT ![newNetworkId] =
                [networkId |-> newNetworkId,
                 encryptedDependencyMatrix |-> sub.cap,
                 encryptedCapacity |-> sub.dep,
                 encryptedCriticality |-> sub.crit,
                 sector |-> sub.sector,
                 timestamp |-> timestamp]]
       /\ events' = Append(events, <<"NetworkDataSubmitted", newNetworkId,
                                     sub.sector, timestamp>>)
    /\ UNCHANGED << analysisCount, encryptedAnalyses, decryptedResults,
                    requestToNetworkId, analysisRequestToId, oracleRequests,
                    fulfilled >>

submitEncryptedNetworkData(sub, timestamp) ==
    /\ networkCount < MaxNetworks
    /\ LET newNetworkId == networkCount + 1 IN
       /\ networkCount' = newNetworkId
       /\ encryptedNetworks' =
            [encryptedNetworks EXCEPT ![newNetworkId] =
                [networkId |-> newNetworkId,
                 encryptedDependencyMatrix |-> sub.dep,
                 encryptedCapacity |-> sub.cap,
                 encryptedCriticality |-> sub.crit,
                 sector |-> sub.sector,
                 timestamp |-> timestamp]]
       /\ events' = Append(events, <<"NetworkDataSubmitted", newNetworkId,
                                     sub.sector, timestamp>>)
    /\ UNCHANGED << analysisCount, encryptedAnalyses, decryptedResults,
                    requestToNetworkId, analysisRequestToId, oracleRequests,
                    fulfilled >>

requestRiskAnalysis_NoEvent(networkId, reqId) ==
    /\ Len(oracleRequests) < MaxRequests
    /\ LET network == encryptedNetworks[networkId]
           ciphertexts == << ToBytes32(network.encryptedDependencyMatrix),
                             ToBytes32(network.encryptedCapacity),
                             ToBytes32(network.encryptedCriticality) >>
       IN
       /\ oracleRequests' = Append(oracleRequests,
                              [requestID |-> reqId, cts |-> ciphertexts,
                               callbackSelector |-> "performAnalysis"])
       /\ requestToNetworkId' = [requestToNetworkId EXCEPT ![reqId] = networkId]
    /\ UNCHANGED << networkCount, analysisCount, encryptedNetworks,
                    encryptedAnalyses, decryptedResults, analysisRequestToId,
                    events, fulfilled >>

requestRiskAnalysis(networkId, reqId) ==
    /\ Len(oracleRequests) < MaxRequests
    /\ LET network == encryptedNetworks[networkId]
           ciphertexts == << ToBytes32(network.encryptedDependencyMatrix),
                             ToBytes32(network.encryptedCapacity),
                             ToBytes32(network.encryptedCriticality) >>
       IN
       /\ oracleRequests' = Append(oracleRequests,
                              [requestID |-> reqId, cts |-> ciphertexts,
                               callbackSelector |-> "performAnalysis"])
       /\ requestToNetworkId' = [requestToNetworkId EXCEPT ![reqId] = networkId]
       /\ events' = Append(events, <<"AnalysisRequested", reqId, networkId>>)
    /\ UNCHANGED << networkCount, analysisCount, encryptedNetworks,
                    encryptedAnalyses, decryptedResults, analysisRequestToId,
                    fulfilled >>

performAnalysis_LatestRequest(requestId, cleartexts, proofOk, timestamp) ==
    IF performAnalysisOutcome(requestId, cleartexts, proofOk) # Ok THEN
        Reverted
    ELSE
        LET networkId == requestToNetworkId[counterRequest - 1]
            dependencies == cleartexts[1]
            capacity == cleartexts[2]
            criticality == cleartexts[3]
            newAnalysisId == NextAnalysisId
            riskScore == calculateRiskScore(dependencies, capacity, criticality)
            vulnerability == calculateVulnerability(dependencies, capacity)
        IN
        /\ analysisCount < MaxAnalyses
        /\ analysisCount' = newAnalysisId
        /\ encryptedAnalyses' =
             [encryptedAnalyses EXCEPT ![newAnalysisId] =
                 [analysisId |-> newAnalysisId,
                  encryptedRiskScore |-> AsEuint32(riskScore),
                  encryptedVulnerability |-> AsEuint32(vulnerability),
                  networkId |-> networkId,
                  analyzedAt |-> timestamp]]
        /\ decryptedResults' =
             [decryptedResults EXCEPT ![newAnalysisId] =
                 [riskScore |-> riskScore,
                  vulnerability |-> vulnerability,
                  isRevealed |-> FALSE]]
        /\ events' = Append(events, <<"AnalysisCompleted", newAnalysisId>>)
        /\ fulfilled' = fulfilled \cup { <<"performAnalysis", requestId>> }
        /\ UNCHANGED << networkCount, encryptedNetworks, requestToNetworkId,
                        analysisRequestToId, oracleRequests >>

performAnalysis(requestId, cleartexts, proofOk, timestamp) ==
    IF performAnalysisOutcome(requestId, cleartexts, proofOk) # Ok THEN
        Reverted
    ELSE
        LET networkId == requestToNetworkId[requestId]
            dependencies == cleartexts[1]
            capacity == cleartexts[2]
            criticality == cleartexts[3]
            newAnalysisId == NextAnalysisId
            riskScore == calculateRiskScore(dependencies, capacity, criticality)
            vulnerability == calculateVulnerability(dependencies, capacity)
        IN
        /\ analysisCount < MaxAnalyses
        /\ analysisCount' = newAnalysisId
        /\ encryptedAnalyses' =
             [encryptedAnalyses EXCEPT ![newAnalysisId] =
                 [analysisId |-> newAnalysisId,
                  encryptedRiskScore |-> AsEuint32(riskScore),
                  encryptedVulnerability |-> AsEuint32(vulnerability),
                  networkId |-> networkId,
                  analyzedAt |-> timestamp]]
        /\ decryptedResults' =
             [decryptedResults EXCEPT ![newAnalysisId] =
                 [riskScore |-> riskScore,
                  vulnerability |-> vulnerability,
                  isRevealed |-> FALSE]]
        /\ events' = Append(events, <<"AnalysisCompleted", newAnalysisId>>)
        /\ fulfilled' = fulfilled \cup { <<"performAnalysis", requestId>> }
        /\ UNCHANGED << networkCount, encryptedNetworks, requestToNetworkId,
                        analysisRequestToId, oracleRequests >>

requestResultDecryption(analysisId, reqId) ==
    IF requestResultDecryptionOutcome(analysisId) # Ok THEN
        Reverted
    ELSE
        /\ Len(oracleRequests) < MaxRequests
        /\ LET analysis == encryptedAnalyses[analysisId]
               ciphertexts == << ToBytes32(analysis.encryptedRiskScore),
                                 ToBytes32(analysis.encryptedVulnerability) >>
           IN
           /\ oracleRequests' = Append(oracleRequests,
                                  [requestID |-> reqId, cts |-> ciphertexts,
                                   callbackSelector |-> "decryptAnalysis"])
           /\ analysisRequestToId' =
                [analysisRequestToId EXCEPT ![reqId] = analysisId]
        /\ UNCHANGED << networkCount, analysisCount, encryptedNetworks,
                        encryptedAnalyses, decryptedResults, requestToNetworkId,
                        events, fulfilled >>

decryptAnalysis_ClearsAnalysis(requestId, cleartexts, proofOk) ==
    IF decryptAnalysisOutcome(requestId, cleartexts, proofOk) # Ok THEN
        Reverted
    ELSE
        LET analysisId == analysisRequestToId[requestId] IN
        /\ decryptedResults' =
             [decryptedResults EXCEPT ![analysisId] =
                 [riskScore |-> cleartexts[1],
                  vulnerability |-> cleartexts[2],
                  isRevealed |-> TRUE]]
        /\ encryptedAnalyses' =
             [encryptedAnalyses EXCEPT ![analysisId] = NoAnalysis]
        /\ events' = Append(events, <<"ResultDecrypted", analysisId>>)
        /\ fulfilled' = fulfilled \cup { <<"decryptAnalysis", requestId>> }
        /\ UNCHANGED << networkCount, analysisCount, encryptedNetworks,
                        requestToNetworkId, analysisRequestToId,
                        oracleRequests >>

decryptAnalysis_RevealsEvery(requestId, cleartexts, proofOk) ==
    IF decryptAnalysisOutcome(requestId, cleartexts, proofOk) # Ok THEN
        Reverted
    ELSE
        LET analysisId == analysisRequestToId[requestId] IN
        /\ decryptedResults' =
             [a \in AnKeys |->
                 IF a = analysisId
                 THEN [riskScore |-> cleartexts[1],
                       vulnerability |-> cleartexts[2],
                       isRevealed |-> TRUE]
                 ELSE [decryptedResults[a] EXCEPT !.isRevealed = TRUE]]
        /\ events' = Append(events, <<"ResultDecrypted", analysisId>>)
        /\ fulfilled' = fulfilled \cup { <<"decryptAnalysis", requestId>> }
        /\ UNCHANGED << networkCount, analysisCount, encryptedNetworks,
                        encryptedAnalyses, requestToNetworkId,
                        analysisRequestToId, oracleRequests >>

decryptAnalysis(requestId, cleartexts, proofOk) ==
    IF decryptAnalysisOutcome(requestId, cleartexts, proofOk) # Ok THEN
        Reverted
    ELSE
        LET analysisId == analysisRequestToId[requestId] IN
        /\ decryptedResults' =
             [decryptedResults EXCEPT ![analysisId] =
                 [riskScore |-> cleartexts[1],
                  vulnerability |-> cleartexts[2],
                  isRevealed |-> TRUE]]
        /\ events' = Append(events, <<"ResultDecrypted", analysisId>>)
        /\ fulfilled' = fulfilled \cup { <<"decryptAnalysis", requestId>> }
        /\ UNCHANGED << networkCount, analysisCount, encryptedNetworks,
                        encryptedAnalyses, requestToNetworkId,
                        analysisRequestToId, oracleRequests >>

\* ----------------------------------------------------------- read accessors
getDecryptedResult(analysisId) ==
    LET r == decryptedResults[analysisId] IN
    [riskScore |-> r.riskScore, vulnerability |-> r.vulnerability,
     isRevealed |-> r.isRevealed]

getEncryptedNetworkData(networkId) ==
    LET n == encryptedNetworks[networkId] IN
    << n.encryptedDependencyMatrix, n.encryptedCapacity,
       n.encryptedCriticality, n.sector, n.timestamp >>

getEncryptedAnalysis(analysisId) ==
    LET a == encryptedAnalyses[analysisId] IN
    << a.encryptedRiskScore, a.encryptedVulnerability, a.networkId,
       a.analyzedAt >>

\* ------------------------------------------------------------ specification
SubmitStep ==
    \E sub \in Submissions, timestamp \in Timestamps :
        submitEncryptedNetworkData(sub, timestamp)

RequestAnalysisStep ==
    \E networkId \in NetKeys : requestRiskAnalysis(networkId, counterRequest)

PerformAnalysisStep ==
    \E requestId \in ReqIds, cleartexts \in AnalysisCleartexts,
       proofOk \in BOOLEAN, timestamp \in Timestamps :
        performAnalysis(requestId, cleartexts, proofOk, timestamp)

RequestRevealStep ==
    \E analysisId \in AnKeys : requestResultDecryption(analysisId, counterRequest)

DecryptAnalysisStep ==
    \E requestId \in ReqIds, cleartexts \in RevealCleartexts,
       proofOk \in BOOLEAN :
        decryptAnalysis(requestId, cleartexts, proofOk)

Next ==
    \/ SubmitStep
    \/ RequestAnalysisStep
    \/ PerformAnalysisStep
    \/ RequestRevealStep
    \/ DecryptAnalysisStep

Spec == Init /\ [][Next]_vars

TypeOK ==
    /\ networkCount \in 0..MaxNetworks
    /\ analysisCount \in 0..MaxAnalyses
    /\ Len(oracleRequests) <= MaxRequests
    /\ \A r \in ReqIds : requestToNetworkId[r] \in NetKeys
    /\ \A r \in ReqIds : analysisRequestToId[r] \in AnKeys
    /\ \A k \in AnKeys : decryptedResults[k].isRevealed \in BOOLEAN

\* ------------------------------------------------------------------ helpers
Range(seq) == { seq[i] : i \in 1..Len(seq) }

\* The request identifiers handed out for the callback `selector`.
IssuedBy(selector) ==
    { q.requestID : q \in { x \in Range(oracleRequests) :
                              x.callbackSelector = selector } }

Applied(selector, requestId) == << selector, requestId >> \in fulfilled

Revealed(analysisId) == getDecryptedResult(analysisId).isRevealed

NetworkExists(networkId) == networkId \in 1..networkCount

AnalysisExists(analysisId) == analysisId \in 1..analysisCount

\* =================================================================== claims

\* C1: performAnalysis with a request identifier that requestRiskAnalysis
\* never issued, or whose callback was already applied, fails with
\* UnknownRequest and creates no AnalysisRecord: no identifier leads to more
\* than one successful performAnalysis.
C1_ReplayedAnalysisRejected ==
    [][ \A requestId \in ReqIds :
          (requestId \notin IssuedBy("performAnalysis")
             \/ Applied("performAnalysis", requestId))
          => \A cleartexts \in AnalysisCleartexts, proofOk \in BOOLEAN,
                timestamp \in Timestamps :
                performAnalysis(requestId, cleartexts, proofOk, timestamp)
                => /\ performAnalysisOutcome(requestId, cleartexts, proofOk)
                        = UnknownRequest
                   /\ UNCHANGED << analysisCount, encryptedAnalyses >> ]_vars

\* C2: once getDecryptedResult(analysisId) reports isRevealed = TRUE it
\* reports TRUE in every later state.
C2_RevealedMonotonic ==
    [][ \A analysisId \in AnKeys :
          Revealed(analysisId) => Revealed(analysisId)' ]_vars

\* C3: for every analysisId at most one decryptAnalysis succeeds, and after
\* it the stored riskScore and vulnerability never change.
C3_RevealedAtMostOnce ==
    [][ \A analysisId \in AnKeys :
          << "ResultDecrypted", analysisId >> \in Range(events)
          => /\ getDecryptedResult(analysisId).riskScore'
                  = getDecryptedResult(analysisId).riskScore
             /\ getDecryptedResult(analysisId).vulnerability'
                  = getDecryptedResult(analysisId).vulnerability
             /\ events' # Append(events, << "ResultDecrypted", analysisId >>)
      ]_vars

\* C4: with two reveal requests outstanding for one analysisId, once the
\* callback of one was applied decryptAnalysis for the other fails with
\* AlreadyRevealed and leaves the stored values alone; and decryptAnalysis for
\* an analysis that is revealed fails with AlreadyRevealed.
C4_SecondRevealRejected ==
    [][ \A requestId \in ReqIds :
          LET analysisId == analysisRequestToId[requestId] IN
          ( /\ analysisId # 0
            /\ \/ Revealed(analysisId)
               \/ \E other \in ReqIds \ {requestId} :
                     /\ analysisRequestToId[other] = analysisId
                     /\ Applied("decryptAnalysis", other) )
          => \A cleartexts \in RevealCleartexts, proofOk \in BOOLEAN :
                decryptAnalysis(requestId, cleartexts, proofOk)
                => /\ decryptAnalysisOutcome(requestId, cleartexts, proofOk)
                        = AlreadyRevealed
                   /\ UNCHANGED decryptedResults ]_vars

\* The part of C4 that the code keeps: a callback whose tracker entry points
\* at a revealed result is rejected with AlreadyRevealed.
C4_RevealedRejected ==
    \A requestId \in ReqIds :
        (analysisRequestToId[requestId] # 0
           /\ Revealed(analysisRequestToId[requestId]))
        => \A cleartexts \in RevealCleartexts, proofOk \in BOOLEAN :
              decryptAnalysisOutcome(requestId, cleartexts, proofOk)
                  = AlreadyRevealed

\* C5: decryptAnalysis with a request identifier that requestResultDecryption
\* never issued, or whose callback was already applied, fails with
\* UnknownRequest.
C5_ReplayedRevealUnknown ==
    \A requestId \in ReqIds :
        (requestId \notin IssuedBy("decryptAnalysis")
           \/ Applied("decryptAnalysis", requestId))
        => \A cleartexts \in RevealCleartexts, proofOk \in BOOLEAN :
              decryptAnalysisOutcome(requestId, cleartexts, proofOk)
                  = UnknownRequest

\* C6: every stored AnalysisRecord refers to an existing NetworkRecord.
C6_AnalysisHasNetwork ==
    \A analysisId \in AnKeys :
        encryptedAnalyses[analysisId] # NoAnalysis
        => NetworkExists(encryptedAnalyses[analysisId].networkId)

\* C7: every revealed DecryptedResult belongs to an existing AnalysisRecord.
C7_RevealedHasAnalysis ==
    \A analysisId \in AnKeys :
        Revealed(analysisId) => AnalysisExists(analysisId)

\* C8: requestRiskAnalysis(networkId) for a networkId that is 0 or above
\* networkCount fails with NotFound, dispatches no oracle request, records no
\* pending request and emits no AnalysisRequested event.
C8_UnknownNetworkRejected ==
    [][ \A networkId \in NetKeys :
          (~NetworkExists(networkId)
             /\ requestRiskAnalysis(networkId, counterRequest))
          => /\ requestRiskAnalysisOutcome(networkId) = NotFound
             /\ UNCHANGED << oracleRequests, requestToNetworkId, events >>
      ]_vars

\* C9: requestResultDecryption(analysisId) for an analysisId that is 0 or
\* above analysisCount fails with NotFound, dispatches no oracle request and
\* records no pending request.
C9_UnknownAnalysisRejected ==
    [][ \A analysisId \in AnKeys :
          (~AnalysisExists(analysisId)
             /\ requestResultDecryption(analysisId, counterRequest))
          => /\ requestResultDecryptionOutcome(analysisId) = NotFound
             /\ UNCHANGED << oracleRequests, analysisRequestToId >> ]_vars

\* C10: requestResultDecryption on a revealed analysis fails with
\* AlreadyRevealed: no reveal request is ever dispatched, and no tracker entry
\* written, for an analysis that is revealed at that moment.  On an existing
\* analysis that is not revealed it succeeds, and the request it dispatches
\* is recorded in analysisRequestToId under that analysisId; nothing else
\* writes analysisRequestToId.
C10_RevealRequestGuard ==
    /\ [] \A analysisId \in AnKeys :
            /\ Revealed(analysisId)
                 => requestResultDecryptionOutcome(analysisId) = AlreadyRevealed
            /\ (AnalysisExists(analysisId) /\ ~Revealed(analysisId))
                 => requestResultDecryptionOutcome(analysisId) = Ok
    /\ [][ /\ (IssuedBy("decryptAnalysis"))' # IssuedBy("decryptAnalysis")
             => \E analysisId \in AnKeys :
                  /\ ~Revealed(analysisId)
                  /\ oracleRequests' = Append(oracleRequests,
                        [requestID |-> counterRequest,
                         cts |-> << getEncryptedAnalysis(analysisId)[1],
                                    getEncryptedAnalysis(analysisId)[2] >>,
                         callbackSelector |-> "decryptAnalysis"])
                  /\ analysisRequestToId' =
                       [analysisRequestToId EXCEPT ![counterRequest] = analysisId]
           /\ analysisRequestToId' # analysisRequestToId
             => (IssuedBy("decryptAnalysis"))' # IssuedBy("decryptAnalysis")
       ]_vars

\* C10 witness: a reveal request recorded for an existing analysis, which has
\* since been revealed, so that a further requestResultDecryption is refused.
C10_Witness ==
    \E requestId \in IssuedBy("decryptAnalysis") :
        /\ AnalysisExists(analysisRequestToId[requestId])
        /\ Revealed(analysisRequestToId[requestId])
        /\ requestResultDecryptionOutcome(analysisRequestToId[requestId])
             = AlreadyRevealed

\* C11: after a successful performAnalysis for a request on network n there
\* is exactly one AnalysisRecord with back-reference n, with a DecryptedResult
\* that is not revealed, and later callbacks leave that count at one.
C11_OneAnalysisPerDelivery ==
    [][ analysisCount' # analysisCount
        => LET newAnalysisId == analysisCount + 1
               networkId == encryptedAnalyses'[newAnalysisId].networkId IN
           /\ analysisCount' = newAnalysisId
           /\ Cardinality({ analysisId \in AnKeys :
                  /\ encryptedAnalyses'[analysisId] # NoAnalysis
                  /\ encryptedAnalyses'[analysisId].networkId = networkId }) = 1
           /\ ~decryptedResults'[newAnalysisId].isRevealed ]_vars

\* C12: of two analysis requests for the same network at most one is applied
\* and produces an AnalysisRecord.
C12_OneRequestPerNetworkApplied ==
    \A r1 \in IssuedBy("performAnalysis"), r2 \in IssuedBy("performAnalysis") :
        (r1 # r2 /\ requestToNetworkId[r1] # 0
           /\ requestToNetworkId[r1] = requestToNetworkId[r2])
        => ~(Applied("performAnalysis", r1) /\ Applied("performAnalysis", r2))

\* C13: every rejected call leaves the ledger unchanged: when performAnalysis,
\* requestResultDecryption or decryptAnalysis fails (submitEncryptedNetworkData
\* and requestRiskAnalysis have no failing path), the counters, all records,
\* the request trackers, the dispatched requests and the event log are the
\* same before and after the call (a step that changes any of them is not a
\* failing call); a callback whose proof fails verification changes nothing,
\* whatever its cleartext payload.
C13_RejectedCallLeavesLedger ==
    [][ \/ UNCHANGED vars
        \/  /\ \A requestId \in ReqIds, cleartexts \in AnalysisCleartexts,
                  proofOk \in BOOLEAN, timestamp \in Timestamps :
                  ( \/ performAnalysisOutcome(requestId, cleartexts, proofOk) # Ok
                    \/ ~proofOk )
                  => ~performAnalysis(requestId, cleartexts, proofOk, timestamp)
            /\ \A analysisId \in AnKeys :
                  requestResultDecryptionOutcome(analysisId) # Ok
                  => ~requestResultDecryption(analysisId, counterRequest)
            /\ \A requestId \in ReqIds, cleartexts \in RevealCleartexts,
                  proofOk \in BOOLEAN :
                  ( \/ decryptAnalysisOutcome(requestId, cleartexts, proofOk) # Ok
                    \/ ~proofOk )
                  => ~decryptAnalysis(requestId, cleartexts, proofOk) ]_vars

\* A populated ledger with a pending analysis request whose callback arrives
\* with a failing proof, and a revealed result whose reveal request is refused.
C13_Witness ==
    /\ networkCount > 0
    /\ analysisCount > 0
    /\ \E requestId \in IssuedBy("performAnalysis") :
          /\ ~Applied("performAnalysis", requestId)
          /\ performAnalysisOutcome(requestId, << 10, 2, 6 >>, FALSE)
                = ProofVerificationFailed
    /\ \E analysisId \in AnKeys :
          requestResultDecryptionOutcome(analysisId) = AlreadyRevealed

\* C14: every DecryptedResult that is not revealed reads as zero riskScore
\* and zero vulnerability through getDecryptedResult.
C14_UnrevealedResultIsZero ==
    \A analysisId \in AnKeys :
        ~getDecryptedResult(analysisId).isRevealed
        => /\ getDecryptedResult(analysisId).riskScore = 0
           /\ getDecryptedResult(analysisId).vulnerability = 0

\* The identifiers carried by the events of one kind, in log order.
EventIds(kind) ==
    LET OfKind(e) == e[1] = kind
        selected == SelectSeq(events, OfKind)
    IN [i \in 1..Len(selected) |-> selected[i][2]]

\* ids lists 1, 2, ..., count in that order.
CountsUpTo(ids, count) ==
    /\ DOMAIN ids = 1..count
    /\ \A i \in 1..count : ids[i] = i

C16_NetworkRecordImmutable ==
    [][ /\ \A sub \in Submissions, timestamp \in Timestamps :
              submitEncryptedNetworkData(sub, timestamp)
              => /\ networkCount' >= 1
                 /\ getEncryptedNetworkData(networkCount)'
                      = << sub.dep, sub.cap, sub.crit, sub.sector, timestamp >>
        /\ \A networkId \in NetKeys :
              NetworkExists(networkId)
              => /\ NetworkExists(networkId)'
                 /\ getEncryptedNetworkData(networkId)'
                      = getEncryptedNetworkData(networkId)
                 /\ encryptedNetworks'[networkId] = encryptedNetworks[networkId]
      ]_vars

\* A submitted network that has since been analysed and revealed still reads
\* as submitted.
C16_Witness ==
    /\ NetworkExists(1)
    /\ \E sub \in Submissions, timestamp \in Timestamps :
          getEncryptedNetworkData(1)
            = << sub.dep, sub.cap, sub.crit, sub.sector, timestamp >>
    /\ \E analysisId \in AnKeys :
          /\ AnalysisExists(analysisId)
          /\ getEncryptedAnalysis(analysisId)[3] = 1
          /\ Revealed(analysisId)

\* C17: an AnalysisRecord is created only by a successful performAnalysis,
\* under the next analysisId, and is never changed afterwards: every step
\* that changes encryptedAnalyses is a successful performAnalysis that adds
\* one record at a key that held none, and every existing record (handles,
\* networkId, analyzedAt) is the same after every step.
C17_AnalysisRecordImmutable ==
    [][ /\ \A analysisId \in AnKeys :
              encryptedAnalyses[analysisId] # NoAnalysis
              => /\ encryptedAnalyses'[analysisId] = encryptedAnalyses[analysisId]
                 /\ getEncryptedAnalysis(analysisId)'
                      = getEncryptedAnalysis(analysisId)
        /\ encryptedAnalyses' # encryptedAnalyses
           => /\ \E requestId \in ReqIds, cleartexts \in AnalysisCleartexts,
                    timestamp \in Timestamps :
                    /\ performAnalysisOutcome(requestId, cleartexts, TRUE) = Ok
                    /\ performAnalysis(requestId, cleartexts, TRUE, timestamp)
              /\ \A analysisId \in AnKeys :
                    encryptedAnalyses'[analysisId] # encryptedAnalyses[analysisId]
                    => /\ analysisId = analysisCount'
                       /\ encryptedAnalyses[analysisId] = NoAnalysis
      ]_vars

\* Two AnalysisRecords exist, the first was revealed after the second was
\* created, and reveal requests are outstanding.
C17_Witness ==
    /\ analysisCount = 2
    /\ encryptedAnalyses[1] # NoAnalysis
    /\ encryptedAnalyses[2] # NoAnalysis
    /\ Revealed(1)
    /\ IssuedBy("decryptAnalysis") # {}
    /\ NetworkExists(1)

\* The step changed exactly the entity that event e names: a
\* NetworkDataSubmitted event the NetworkRecord just allocated (with its
\* sector and timestamp), an AnalysisRequested event the request just
\* dispatched and the network it is tracked for, an AnalysisCompleted event
\* the AnalysisRecord just allocated, a ResultDecrypted event the
\* DecryptedResult just revealed.
EventMatchesChange(e) ==
    CASE e[1] = "NetworkDataSubmitted" ->
           /\ networkCount' = networkCount + 1
           /\ e[2] = networkCount'
           /\ encryptedNetworks' =
                [encryptedNetworks EXCEPT ![e[2]] = encryptedNetworks'[e[2]]]
           /\ encryptedNetworks'[e[2]].networkId = e[2]
           /\ encryptedNetworks'[e[2]].sector = e[3]
           /\ encryptedNetworks'[e[2]].timestamp = e[4]
           /\ UNCHANGED << analysisCount, encryptedAnalyses, decryptedResults,
                           requestToNetworkId, analysisRequestToId,
                           oracleRequests >>
      [] e[1] = "AnalysisRequested" ->
           /\ e[2] = counterRequest
           /\ Len(oracleRequests') = Len(oracleRequests) + 1
           /\ oracleRequests'[Len(oracleRequests')].requestID = e[2]
           /\ requestToNetworkId' = [requestToNetworkId EXCEPT ![e[2]] = e[3]]
           /\ UNCHANGED << networkCount, analysisCount, encryptedNetworks,
                           encryptedAnalyses, decryptedResults,
                           analysisRequestToId >>
      [] e[1] = "AnalysisCompleted" ->
           /\ analysisCount' = analysisCount + 1
           /\ e[2] = analysisCount'
           /\ encryptedAnalyses' =
                [encryptedAnalyses EXCEPT ![e[2]] = encryptedAnalyses'[e[2]]]
           /\ encryptedAnalyses'[e[2]].analysisId = e[2]
           /\ decryptedResults' =
                [decryptedResults EXCEPT ![e[2]] = decryptedResults'[e[2]]]
           /\ UNCHANGED << networkCount, encryptedNetworks, requestToNetworkId,
                           analysisRequestToId, oracleRequests >>
      [] e[1] = "ResultDecrypted" ->
           /\ decryptedResults' =
                [decryptedResults EXCEPT ![e[2]] = decryptedResults'[e[2]]]
           /\ decryptedResults'[e[2]].isRevealed
           /\ UNCHANGED << networkCount, analysisCount, encryptedNetworks,
                           encryptedAnalyses, requestToNetworkId,
                           analysisRequestToId, oracleRequests >>
      [] OTHER -> FALSE

\* The step appended exactly one event to the log, which names the entity
\* the step changed; no earlier event was altered or removed.
AppendsOneMatchingEvent ==
    /\ Len(events') = Len(events) + 1
    /\ SubSeq(events', 1, Len(events)) = events
    /\ EventMatchesChange(events'[Len(events')])

\* C20: the event log is append-only and every successful transition appends
\* exactly one event that names the entity changed (a rejected call changes
\* nothing and appends nothing).
C20_OneEventPerTransition ==
    [][ AppendsOneMatchingEvent ]_vars

\* C20, as the code has it: every successful submitEncryptedNetworkData,
\* requestRiskAnalysis, performAnalysis and decryptAnalysis appends exactly
\* one event that names the entity changed, and no earlier event is altered
\* or removed; a successful requestResultDecryption appends no event and
\* changes only the reveal tracker and the dispatched requests; a rejected
\* call changes nothing and appends nothing.
C20_OneEventPerLoggedTransition ==
    [][ \/ AppendsOneMatchingEvent
        \/ /\ \E analysisId \in AnKeys :
                /\ requestResultDecryptionOutcome(analysisId) = Ok
                /\ requestResultDecryption(analysisId, counterRequest)
           /\ UNCHANGED << events, networkCount, analysisCount,
                           encryptedNetworks, encryptedAnalyses,
                           decryptedResults, requestToNetworkId >> ]_vars

\* The log holds one event of each kind, in the order of the transitions,
\* after a reveal request that appended none.
C20_Witness ==
    /\ Len(events) = 4
    /\ events[1][1] = "NetworkDataSubmitted"
    /\ events[2][1] = "AnalysisRequested"
    /\ events[3][1] = "AnalysisCompleted"
    /\ events[4][1] = "ResultDecrypted"
    /\ Len(oracleRequests) = 2

\* ------------------------------------------- one unit of work, honest oracle
\* Cleartext triples (dependencies, capacity, criticality) the oracle may
\* deliver for the network's three ciphertexts: small ones, one whose product
\* needs 31 bits, one whose dependencies * criticality is 2^32 and one whose
\* dependencies * 100 is 4294967300.
Dependencies == { 0, 1, 7, 10, 20 }
Capacities == { 0, 1, 2, 3, 4 }
Criticalities == { 0, 3, 5, 6 }
E2ECleartexts ==
    { << d, c, k >> : d \in Dependencies, c \in Capacities, k \in Criticalities }
        \cup { << 65535, 1, 32000 >>, << 65536, 1, 65536 >>,
               << 42949673, 1, 0 >> }
E2ESubmissions ==
    { [dep |-> 11, cap |-> 12, crit |-> 13, sector |-> sec] : sec \in { 1, 2 } }
E2ETimestamps == { 1700000000, 1700000060 }

\* The oracle's decryption of a handle made by FHE.asEuint32.
OracleDecrypt(handle) == handle - 1000000

\* The cleartexts an honest oracle delivers for a dispatched request.
FaithfulCleartexts(request) ==
    [i \in 1..Len(request.cts) |-> OracleDecrypt(request.cts[i])]

E2ESubmit ==
    /\ networkCount = 0
    /\ \E sub \in E2ESubmissions, timestamp \in E2ETimestamps :
          submitEncryptedNetworkData(sub, timestamp)

E2ERequestAnalysis ==
    /\ networkCount = 1
    /\ oracleRequests = << >>
    /\ requestRiskAnalysis(networkCount, counterRequest)

E2EDeliverAnalysis ==
    /\ Len(oracleRequests) = 1
    /\ analysisCount = 0
    /\ \E cleartexts \in E2ECleartexts, timestamp \in E2ETimestamps :
          performAnalysis(oracleRequests[1].requestID, cleartexts, TRUE,
                          timestamp)

E2ERequestReveal ==
    /\ analysisCount = 1
    /\ Len(oracleRequests) = 1
    /\ requestResultDecryption(analysisCount, counterRequest)

E2EDeliverReveal ==
    /\ Len(oracleRequests) = 2
    /\ ~Revealed(1)
    /\ decryptAnalysis(oracleRequests[2].requestID,
                       FaithfulCleartexts(oracleRequests[2]), TRUE)

NextE2E ==
    \/ E2ESubmit
    \/ E2ERequestAnalysis
    \/ E2EDeliverAnalysis
    \/ E2ERequestReveal
    \/ E2EDeliverReveal

SpecE2E == Init /\ [][NextE2E]_vars

\* The scores the claims state for a cleartext triple, in plain integer
\* arithmetic: d*k div max(c,1) and d*100 div max(c,1).
MaxOf(a, b) == IF a >= b THEN a ELSE b
StatedRisk(ct) == (ct[1] * ct[3]) \div MaxOf(ct[2], 1)
StatedVulnerability(ct) == (ct[1] * 100) \div MaxOf(ct[2], 1)
Fits(ct) == ~MulOverflows(ct[1], ct[3]) /\ ~MulOverflows(ct[1], 100)

IsFloorOf(q, n, den) == q * den <= n /\ n < (q + 1) * den

\* C19: for every triple of the bounded input set whose products fit in 32
\* bits, calculateRiskScore is floor(dependencies * criticality / max(capacity,
\* 1)) and calculateVulnerability is floor(dependencies * 100 / max(capacity,
\* 1)), capacity 0 counting as denominator 1 (risk(10,0,5) = 50,
\* risk(20,4,3) = 15, vulnerability(20,4) = 500); the scores performAnalysis
\* stores are these values of the delivered triple alone, whatever the state
\* and the time of the call.
C19_RiskCalculator ==
    /\ [] /\ \A ct \in E2ECleartexts :
                Fits(ct)
                => /\ IsFloorOf(calculateRiskScore(ct[1], ct[2], ct[3]),
                                ct[1] * ct[3], MaxOf(ct[2], 1))
                   /\ IsFloorOf(calculateVulnerability(ct[1], ct[2]),
                                ct[1] * 100, MaxOf(ct[2], 1))
                   /\ ct[2] = 0
                      => /\ calculateRiskScore(ct[1], ct[2], ct[3])
                              = ct[1] * ct[3]
                         /\ calculateVulnerability(ct[1], ct[2]) = ct[1] * 100
          /\ calculateRiskScore(10, 0, 5) = 50
          /\ calculateRiskScore(20, 4, 3) = 15
          /\ calculateVulnerability(20, 4) = 500
    /\ [][ \A cleartexts \in E2ECleartexts, timestamp \in E2ETimestamps :
              ( /\ Fits(cleartexts)
                /\ analysisCount = 0
                /\ Len(oracleRequests) = 1
                /\ performAnalysis(oracleRequests[1].requestID, cleartexts,
                                   TRUE, timestamp) )
              => /\ IsFloorOf(decryptedResults'[1].riskScore,
                              cleartexts[1] * cleartexts[3],
                              MaxOf(cleartexts[2], 1))
                 /\ IsFloorOf(decryptedResults'[1].vulnerability,
                              cleartexts[1] * 100, MaxOf(cleartexts[2], 1)) ]_vars

\* The calculator has been applied to a triple with capacity 0 and to one
\* whose quotient is truncated: (10, 0, 5) gives (50, 1000), and (7, 3, 5)
\* gives (11, 233).
C19_Witness ==
    /\ AnalysisExists(1)
    /\ \/ /\ decryptedResults[1].riskScore = 50
          /\ decryptedResults[1].vulnerability = 1000
       \/ /\ decryptedResults[1].riskScore = 11
          /\ decryptedResults[1].vulnerability = 233

\* ------------------------------------- an oracle that may reuse identifiers
\* FHE.requestDecryption is outside the contract: here it may return the
\* next fresh identifier or one it has returned before.
ReuseRequestAnalysisStep ==
    \E networkId \in NetKeys, reqId \in 0..counterRequest :
        requestRiskAnalysis(networkId, reqId)

ReuseRequestRevealStep ==
    \E analysisId \in AnKeys, reqId \in 0..counterRequest :
        requestResultDecryption(analysisId, reqId)

NextReuse ==
    \/ SubmitStep
    \/ ReuseRequestAnalysisStep
    \/ PerformAnalysisStep
    \/ ReuseRequestRevealStep
    \/ DecryptAnalysisStep

SpecReuse == Init /\ [][NextReuse]_vars

\* requestId has a PendingRequest in the tracker.
Tracked(requestId) ==
    requestToNetworkId[requestId] # 0 \/ analysisRequestToId[requestId] # 0

\* C21: when the oracle returns to requestRiskAnalysis or
\* requestResultDecryption an identifier that is still tracked, the call does
\* not change the tracker: the earlier entry keeps its kind and its target.
C21_DuplicateRequestIdRejected ==
    [][ \A reqId \in ReqIds :
           Tracked(reqId)
           => /\ \A networkId \in NetKeys :
                    requestRiskAnalysis(networkId, reqId)
                    => UNCHANGED << requestToNetworkId, analysisRequestToId >>
              /\ \A analysisId \in AnKeys :
                    requestResultDecryption(analysisId, reqId)
                    => UNCHANGED << requestToNetworkId, analysisRequestToId >>
      ]_vars

\* C22: the stages of a unit of work come in order: for every analysisId
\* that has been revealed, the log holds, before its ResultDecrypted event,
\* the AnalysisCompleted event of that analysisId, before that an
\* AnalysisRequested event for the network of the AnalysisRecord, and before
\* that the NetworkDataSubmitted event of that network.
C22_StagesInOrder ==
    \A p4 \in 1..Len(events) :
        events[p4][1] = "ResultDecrypted"
        => \E p3 \in 1..(p4 - 1) :
              /\ events[p3] = << "AnalysisCompleted", events[p4][2] >>
              /\ \E p2 \in 1..(p3 - 1) :
                    /\ events[p2][1] = "AnalysisRequested"
                    /\ events[p2][3]
                         = getEncryptedAnalysis(events[p4][2])[3]
                    /\ \E p1 \in 1..(p2 - 1) :
                          /\ events[p1][1] = "NetworkDataSubmitted"
                          /\ events[p1][2] = events[p2][3]

\* The networkIds that the log records as passed to the requestRiskAnalysis
\* call that returned requestId.
RequestedNetworks(requestId) ==
    { e[3] : e \in { x \in Range(events) :
                        x[1] = "AnalysisRequested" /\ x[2] = requestId } }

\* C23: whatever the order of delivery, every successful
\* performAnalysis(requestId) creates an AnalysisRecord whose networkId is
\* the networkId passed to the requestRiskAnalysis call that returned
\* requestId.
C23_CallbackCorrelated ==
    [][ \A requestId \in ReqIds, cleartexts \in AnalysisCleartexts,
           timestamp \in Timestamps :
           ( /\ performAnalysisOutcome(requestId, cleartexts, TRUE) = Ok
             /\ performAnalysis(requestId, cleartexts, TRUE, timestamp) )
           => /\ analysisCount' = analysisCount + 1
              /\ RequestedNetworks(requestId)
                   = { encryptedAnalyses'[analysisCount + 1].networkId } ]_vars

\* Two analysis requests were outstanding together, the later one was
\* delivered first, and both callbacks created their record.
C23_Witness ==
    /\ { 0, 1 } \subseteq IssuedBy("performAnalysis")
    /\ Applied("performAnalysis", 0)
    /\ Applied("performAnalysis", 1)
    /\ analysisCount = 2
    /\ RequestedNetworks(1) = { getEncryptedAnalysis(1)[3] }
    /\ RequestedNetworks(0) = { getEncryptedAnalysis(2)[3] }
    /\ events[3] = << "AnalysisCompleted", 1 >>

\* C24: a successful decryptAnalysis(requestId, (r, v), proof) changes
\* exactly one DecryptedResult, setting it to (r, v, isRevealed = TRUE), and
\* leaves networkCount, analysisCount, every NetworkRecord, every
\* AnalysisRecord and every other DecryptedResult as they were; the result
\* changed is the one of the analysisId passed to the requestResultDecryption
\* that returned requestId: that call tracked analysisId under requestId and
\* a tracked target never changes afterwards.
C24_RevealFrame ==
    [][ /\ \A requestId \in ReqIds, cleartexts \in RevealCleartexts :
              ( /\ decryptAnalysisOutcome(requestId, cleartexts, TRUE) = Ok
                /\ decryptAnalysis(requestId, cleartexts, TRUE) )
              => LET analysisId == analysisRequestToId[requestId] IN
                 /\ requestId \in IssuedBy("decryptAnalysis")
                 /\ decryptedResults'[analysisId]
                      = [riskScore |-> cleartexts[1],
                         vulnerability |-> cleartexts[2],
                         isRevealed |-> TRUE]
                 /\ decryptedResults'[analysisId] # decryptedResults[analysisId]
                 /\ \A other \in AnKeys \ { analysisId } :
                       decryptedResults'[other] = decryptedResults[other]
                 /\ UNCHANGED << networkCount, analysisCount,
                                 encryptedNetworks, encryptedAnalyses >>
        /\ \A analysisId \in AnKeys :
              ( /\ requestResultDecryptionOutcome(analysisId) = Ok
                /\ requestResultDecryption(analysisId, counterRequest) )
              => analysisRequestToId'[counterRequest] = analysisId
        /\ \A requestId \in IssuedBy("decryptAnalysis") :
              analysisRequestToId'[requestId] = analysisRequestToId[requestId]
      ]_vars

\* Two results exist; a reveal callback has revealed the second one with the
\* delivered pair and the first one is still as performAnalysis left it.
C24_Witness ==
    /\ analysisCount = 2
    /\ \E requestId \in IssuedBy("decryptAnalysis") :
          /\ analysisRequestToId[requestId] = 2
          /\ Applied("decryptAnalysis", requestId)
    /\ getDecryptedResult(2)
         = [riskScore |-> 60, vulnerability |-> 2000, isRevealed |-> TRUE]
    /\ getDecryptedResult(1)
         = [riskScore |-> 30, vulnerability |-> 500, isRevealed |-> FALSE]

\* C25: with identifiers that the oracle issues once only, a requestId
\* issued by requestResultDecryption and delivered to performAnalysis, or
\* issued by requestRiskAnalysis and delivered to decryptAnalysis, is
\* rejected with "Invalid request" whatever the payload and the proof, and
\* the call changes nothing.
C25_WrongHandlerRejected ==
    /\ [] /\ \A requestId \in IssuedBy("decryptAnalysis"),
                cleartexts \in AnalysisCleartexts, proofOk \in BOOLEAN :
                performAnalysisOutcome(requestId, cleartexts, proofOk)
                  = UnknownRequest
          /\ \A requestId \in IssuedBy("performAnalysis"),
                cleartexts \in RevealCleartexts, proofOk \in BOOLEAN :
                decryptAnalysisOutcome(requestId, cleartexts, proofOk)
                  = UnknownRequest
    /\ [][ \/ UNCHANGED vars
           \/  /\ \A requestId \in IssuedBy("decryptAnalysis"),
                     cleartexts \in AnalysisCleartexts, proofOk \in BOOLEAN,
                     timestamp \in Timestamps :
                     ~performAnalysis(requestId, cleartexts, proofOk, timestamp)
               /\ \A requestId \in IssuedBy("performAnalysis"),
                     cleartexts \in RevealCleartexts, proofOk \in BOOLEAN :
                     ~decryptAnalysis(requestId, cleartexts, proofOk) ]_vars

\* A request of each kind is outstanding for an existing target: each is
\* accepted by its own handler and refused by the other one.
C25_Witness ==
    /\ NetworkExists(1)
    /\ AnalysisExists(1)
    /\ \E r1 \in IssuedBy("performAnalysis"), r2 \in IssuedBy("decryptAnalysis") :
          /\ requestToNetworkId[r1] = 1
          /\ analysisRequestToId[r2] = 1
          /\ performAnalysisOutcome(r1, << 10, 2, 6 >>, TRUE) = Ok
          /\ decryptAnalysisOutcome(r2, << 30, 500 >>, TRUE) = Ok
          /\ performAnalysisOutcome(r2, << 10, 2, 6 >>, TRUE) = UnknownRequest
          /\ decryptAnalysisOutcome(r1, << 30, 500 >>, TRUE) = UnknownRequest

\* C26: a callback rejected for its proof leaves the request pending: when
\* performAnalysis or decryptAnalysis fails with an invalid proof, the
\* tracker entry of that requestId is present, no step removes or retargets
\* it, and the same requestId delivered with a valid proof and a well-formed
\* payload is accepted then and after every later step, for a reveal as long
\* as the target result has not been revealed.
C26_ProofFailureKeepsRequest ==
    /\ [] /\ \A requestId \in ReqIds, cleartexts \in AnalysisCleartexts :
                performAnalysisOutcome(requestId, cleartexts, FALSE)
                  = ProofVerificationFailed
                => /\ requestToNetworkId[requestId] # 0
                   /\ performAnalysisOutcome(requestId, << 10, 2, 6 >>, TRUE) = Ok
          /\ \A requestId \in ReqIds, cleartexts \in RevealCleartexts :
                decryptAnalysisOutcome(requestId, cleartexts, FALSE)
                  = ProofVerificationFailed
                => /\ analysisRequestToId[requestId] # 0
                   /\ decryptAnalysisOutcome(requestId, << 30, 500 >>, TRUE) = Ok
    /\ [][ /\ \A requestId \in ReqIds :
                 requestToNetworkId[requestId] # 0
                 => /\ requestToNetworkId'[requestId]
                         = requestToNetworkId[requestId]
                    /\ performAnalysisOutcome(requestId, << 10, 2, 6 >>, TRUE)' = Ok
           /\ \A requestId \in ReqIds :
                 analysisRequestToId[requestId] # 0
                 => /\ analysisRequestToId'[requestId]
                         = analysisRequestToId[requestId]
                    /\ ~Revealed(analysisRequestToId[requestId])'
                       => decryptAnalysisOutcome(requestId, << 30, 500 >>, TRUE)'
                            = Ok ]_vars

\* An analysis request and a reveal request are pending, each refused with
\* an invalid proof and accepted with a valid one, after other callbacks
\* have been applied.
C26_Witness ==
    /\ fulfilled # {}
    /\ \E requestId \in IssuedBy("performAnalysis") :
          /\ ~Applied("performAnalysis", requestId)
          /\ performAnalysisOutcome(requestId, << 10, 2, 6 >>, FALSE)
               = ProofVerificationFailed
          /\ performAnalysisOutcome(requestId, << 10, 2, 6 >>, TRUE) = Ok
    /\ \E requestId \in IssuedBy("decryptAnalysis") :
          /\ ~Applied("decryptAnalysis", requestId)
          /\ AnalysisExists(analysisRequestToId[requestId])
          /\ decryptAnalysisOutcome(requestId, << 30, 500 >>, FALSE)
               = ProofVerificationFailed
          /\ decryptAnalysisOutcome(requestId, << 30, 500 >>, TRUE) = Ok

\* C27: in every reachable state a NetworkRecord is stored at exactly the
\* keys 1..networkCount and an AnalysisRecord at exactly the keys
\* 1..analysisCount, each under its own identifier, and a DecryptedResult
\* that is not the default one exists only at keys 1..analysisCount.
C27_StoresConsistent ==
    /\ \A k \in NetKeys :
          IF NetworkExists(k)
          THEN encryptedNetworks[k] # NoNetwork /\ encryptedNetworks[k].networkId = k
          ELSE encryptedNetworks[k] = NoNetwork
    /\ \A k \in AnKeys :
          IF AnalysisExists(k)
          THEN encryptedAnalyses[k] # NoAnalysis /\ encryptedAnalyses[k].analysisId = k
          ELSE encryptedAnalyses[k] = NoAnalysis
    /\ \A k \in AnKeys :
          decryptedResults[k] # NoResult => AnalysisExists(k)

\* a * b exceeds 2^32 - 1 (stated without forming the product).
ExceedsUint32(a, b) == a > 0 /\ b > 0 /\ a > Uint32MaxDiv(b)

\* C28: when dependencies * criticality or dependencies * 100 exceeds
\* 2^32 - 1 for the delivered triple, performAnalysis with a valid proof is
\* rejected with an arithmetic panic and leaves analysisCount, the
\* AnalysisRecords and the DecryptedResults as they were; for every other
\* triple the scores it stores are the exact quotients of the products.
C28_NoWrappedScore ==
    /\ [] \A requestId \in ReqIds :
             requestToNetworkId[requestId] # 0
             => /\ \A cleartexts \in E2ECleartexts :
                      ( \/ ExceedsUint32(cleartexts[1], cleartexts[3])
                        \/ ExceedsUint32(cleartexts[1], 100) )
                      <=> performAnalysisOutcome(requestId, cleartexts, TRUE)
                            = Overflow
                /\ performAnalysisOutcome(requestId, << 65536, 1, 65536 >>, TRUE)
                     = Overflow
                /\ performAnalysisOutcome(requestId, << 42949673, 1, 0 >>, TRUE)
                     = Overflow
                /\ performAnalysisOutcome(requestId, << 65535, 1, 32000 >>, TRUE)
                     = Ok
    /\ [][ \A requestId \in ReqIds, cleartexts \in E2ECleartexts,
              timestamp \in E2ETimestamps :
              performAnalysis(requestId, cleartexts, TRUE, timestamp)
              => IF \/ ExceedsUint32(cleartexts[1], cleartexts[3])
                    \/ ExceedsUint32(cleartexts[1], 100)
                 THEN UNCHANGED << analysisCount, encryptedAnalyses,
                                   decryptedResults >>
                 ELSE requestToNetworkId[requestId] # 0
                      => /\ analysisCount' = analysisCount + 1
                         /\ IsFloorOf(decryptedResults'[analysisCount'].riskScore,
                                      cleartexts[1] * cleartexts[3],
                                      MaxOf(cleartexts[2], 1))
                         /\ IsFloorOf(decryptedResults'[analysisCount'].vulnerability,
                                      cleartexts[1] * 100,
                                      MaxOf(cleartexts[2], 1))
                         /\ OracleDecrypt(encryptedAnalyses'[analysisCount'].encryptedRiskScore)
                              = decryptedResults'[analysisCount'].riskScore
                         /\ OracleDecrypt(encryptedAnalyses'[analysisCount'].encryptedVulnerability)
                              = decryptedResults'[analysisCount'].vulnerability
         ]_vars

\* The analysis request is pending, the overflowing triples are refused, and
\* the triple whose product needs 31 bits has been stored exactly:
\* 65535 * 32000 = 2097120000 and 65535 * 100 = 6553500.
C28_Witness ==
    /\ analysisCount = 1
    /\ performAnalysisOutcome(0, << 65536, 1, 65536 >>, TRUE) = Overflow
    /\ decryptedResults[1].riskScore = 2097120000
    /\ decryptedResults[1].vulnerability = 6553500

\* ------------------------------------------------ a fair, honest oracle
\* The oracle delivers every dispatched request once, with a valid proof and
\* cleartexts that decode and do not overflow. Analysis requests stop when
\* MaxAnalyses of them are dispatched, so that every one can be delivered.
FairAnalysisCleartexts ==
    { ct \in AnalysisCleartexts :
        /\ Decodes(ct, 3)
        /\ ~MulOverflows(ct[1], ct[3])
        /\ ~MulOverflows(ct[1], 100) }

FairRevealCleartexts == { ct \in RevealCleartexts : Decodes(ct, 2) }

FairRequestAnalysis ==
    /\ Cardinality(IssuedBy("performAnalysis")) < MaxAnalyses
    /\ RequestAnalysisStep

FairDeliverAnalysis(requestId) ==
    /\ requestId \in IssuedBy("performAnalysis")
    /\ ~Applied("performAnalysis", requestId)
    /\ \E cleartexts \in FairAnalysisCleartexts, timestamp \in Timestamps :
          performAnalysis(requestId, cleartexts, TRUE, timestamp)

FairDeliverReveal(requestId) ==
    /\ requestId \in IssuedBy("decryptAnalysis")
    /\ ~Applied("decryptAnalysis", requestId)
    /\ \E cleartexts \in FairRevealCleartexts :
          decryptAnalysis(requestId, cleartexts, TRUE)

NextFair ==
    \/ SubmitStep
    \/ FairRequestAnalysis
    \/ \E requestId \in ReqIds : FairDeliverAnalysis(requestId)
    \/ RequestRevealStep
    \/ \E requestId \in ReqIds : FairDeliverReveal(requestId)

SpecFair ==
    /\ Init
    /\ [][NextFair]_vars
    /\ \A requestId \in ReqIds :
          /\ WF_vars(FairDeliverAnalysis(requestId))
          /\ WF_vars(FairDeliverReveal(requestId))

\* An analysis request for a submitted network is waiting for its callback.
AnalysisPending(requestId, networkId) ==
    /\ requestId \in IssuedBy("performAnalysis")
    /\ requestToNetworkId[requestId] = networkId
    /\ NetworkExists(networkId)
    /\ ~Applied("performAnalysis", requestId)

\* A reveal request for an existing AnalysisRecord is waiting for its callback.
RevealPending(requestId, analysisId) ==
    /\ requestId \in IssuedBy("decryptAnalysis")
    /\ analysisRequestToId[requestId] = analysisId
    /\ AnalysisExists(analysisId)
    /\ ~Applied("decryptAnalysis", requestId)

HasAnalysis(networkId) ==
    \E analysisId \in AnKeys :
        AnalysisExists(analysisId) /\ getEncryptedAnalysis(analysisId)[3] = networkId

\* C29: under an oracle that eventually delivers every outstanding request
\* with a valid proof and cleartexts that do not overflow, every submitted
\* network with an analysis request waiting eventually has an AnalysisRecord
\* and every AnalysisRecord with a reveal request waiting is eventually
\* revealed; and whatever requests are outstanding, a submission, a request
\* and a well-formed callback for a waiting request are accepted.
C29_ProgressUnderFairOracle ==
    /\ \A requestId \in ReqIds, networkId \in NetKeys :
          AnalysisPending(requestId, networkId) ~> HasAnalysis(networkId)
    /\ \A requestId \in ReqIds, analysisId \in AnKeys :
          RevealPending(requestId, analysisId) ~> Revealed(analysisId)
    /\ [] /\ \A sub \in Submissions : submitEncryptedNetworkDataOutcome(sub) = Ok
          /\ \A networkId \in NetKeys : requestRiskAnalysisOutcome(networkId) = Ok
          /\ \A analysisId \in AnKeys :
                ~Revealed(analysisId)
                => requestResultDecryptionOutcome(analysisId) = Ok
          /\ \A requestId \in ReqIds, networkId \in NetKeys :
                AnalysisPending(requestId, networkId)
                => \A cleartexts \in FairAnalysisCleartexts :
                      performAnalysisOutcome(requestId, cleartexts, TRUE) = Ok
          /\ \A requestId \in ReqIds, analysisId \in AnKeys :
                RevealPending(requestId, analysisId) /\ ~Revealed(analysisId)
                => \A cleartexts \in FairRevealCleartexts :
                      decryptAnalysisOutcome(requestId, cleartexts, TRUE) = Ok

\* Both callbacks of a unit of work have been delivered while another request
\* is still outstanding.
C29_Witness ==
    /\ NetworkExists(1)
    /\ HasAnalysis(1)
    /\ \E analysisId \in AnKeys :
          /\ AnalysisExists(analysisId)
          /\ Revealed(analysisId)
          /\ \E requestId \in IssuedBy("decryptAnalysis") :
                /\ analysisRequestToId[requestId] = analysisId
                /\ Applied("decryptAnalysis", requestId)
    /\ \E requestId \in IssuedBy("performAnalysis") \cup IssuedBy("decryptAnalysis") :
          /\ ~Applied("performAnalysis", requestId)
          /\ ~Applied("decryptAnalysis", requestId)
====
